---- MODULE Spec2Model ----
(***************************************************************************)
(* ZIP-to-county aggregation of the JData directory of organizations:      *)
(* class JDataCounties (jdata_counties.py) and the earlier functional      *)
(* module jewish_county_data.py; and the tools around them: the crosswalk  *)
(* reader (hud_geo_conversions.py), the ACS reader (acs.py) and the map    *)
(* drawing (map_maker.py).                                                 *)
(*                                                                         *)
(* A table of organizations is a bag: a function from the kind of an       *)
(* organization (Zip, Type, Denom) to the number of rows of that kind.     *)
(* groupby sorts its keys and every result used here is a sum over rows,   *)
(* so the order of the rows of the directory is not part of the state.     *)
(* A count table is a function from its index labels to rows, a row a      *)
(* function from column names to numbers. A column name is the sequence of *)
(* its words, <<"Type", "DaySch">> for 'Type_DaySch'. Floats are exact     *)
(* rationals <<numerator, denominator>>; np.isclose / math.isclose are     *)
(* equality, their tolerance (1e-5, 1e-9) being far below the grid of the  *)
(* ratios used here.                                                       *)
(***************************************************************************)
EXTENDS Integers, Sequences, FiniteSets, TLC

VARIABLES
    to_fips,        \* JDataCounties.to_fips: the ZIP-county crosswalk
    jdata_org_fp,   \* the cleaned American directory the file at jdata_org_fp holds
    orgs_df,        \* JDataCounties.orgs_df
    _orgs_df,       \* JDataCounties._orgs_df
    _zip_cnts_df,   \* JDataCounties._zip_cnts_df
    cnty_df,        \* JDataCounties.cnty_df
    include,        \* JDataCounties.include
    exclude,        \* JDataCounties.exclude
    call,           \* arguments of the last get_county_cnts call
    frame,          \* locals of the last get_county_cnts call
    result,         \* how the last get_county_cnts call ended
    jdata,          \* jewish_county_data: the table of organizations
    zips_to_fips,   \* jewish_county_data: the crosswalk, ZIP as a column
    jd_zip_cnts,    \* jewish_county_data: result of aggr_jdata_to_zip
    jd_county,      \* jewish_county_data: last result of jd_zip_cnts_to_county
    fn_frame,       \* jewish_county_data: how, and what clean_jdata_county gave
    xlsx_read,      \* hud_geo_conversions: the paths pd.read_excel was given
    hud_result,     \* hud_geo_conversions: how the last read_zips_to_fips ended
    acs_csv,        \* acs: the table in the file at ACSCountyReader.fp
    acs_result,     \* acs: how the last read_counties call ended
    denom_cnts,     \* jewish_county_data: the table handed to merge_similar_denoms
    merge_result,   \* jewish_county_data: how merge_similar_denoms ended
    svg_args,       \* map_maker: the arguments of draw_county_data_svg
    svg_result      \* map_maker: how draw_county_data_svg ended

vars == <<to_fips, jdata_org_fp, orgs_df, _orgs_df, _zip_cnts_df, cnty_df,
          include, exclude, call, frame, result,
          jdata, zips_to_fips, jd_zip_cnts, jd_county, fn_frame,
          xlsx_read, hud_result, acs_csv, acs_result,
          denom_cnts, merge_result, svg_args, svg_result>>

class_vars == <<to_fips, jdata_org_fp, orgs_df, _orgs_df, _zip_cnts_df, cnty_df,
                include, exclude, call, frame, result>>

fn_vars == <<jdata, zips_to_fips, jd_zip_cnts, jd_county, fn_frame>>

tool_vars == <<xlsx_read, hud_result, acs_csv, acs_result,
               denom_cnts, merge_result, svg_args, svg_result>>

-----------------------------------------------------------------------------
(* Bounds and program constants *)

\* organizations of a directory beyond its MIN_VALID_ZIPS common ones
MaxExtra == 2

\* organizations of a table handed to jewish_county_data
MaxOrgs == 2

\* calls of get_county_cnts made on one JDataCounties object
MaxCalls == 2

\* pieces of a path given to read_zips_to_fips
MaxPath == 3

\* sub-populations (variables) of an ACS table, beside its total
MaxVars == 2

\* the largest whole count of a county table handed to merge_similar_denoms
MaxCount == 1

\* paths of the map template
MaxPaths == 3

\* the largest value of a county on the map
MaxVal == 2

\* width of a ZIP code: str(...).zfill(5)
ZIP_WIDTH == 5

\* _orgs_to_zip_cnts: fewer organizations than this with a ZIP of the crosswalk raise
MIN_VALID_ZIPS == 10

\* Python's None, for an attribute, an argument or a table not yet computed
None == <<>>

\* a missing value of a column of strings (JSON null, numpy.nan); get_dummies
\* names its column with str(nan)
NaN == "nan"

-----------------------------------------------------------------------------
(* Floats *)

Abs(n) == IF n < 0 THEN -n ELSE n

Sign(n) == IF n < 0 THEN -1 ELSE IF n = 0 THEN 0 ELSE 1

RECURSIVE Gcd(_, _)
Gcd(a, b) == IF b = 0 THEN a ELSE Gcd(b, a % b)

\* the float n/d for d # 0
Frac(n, d) ==
    LET g == Gcd(Abs(n), Abs(d))
    IN  <<(Sign(d) * n) \div g, Abs(d) \div g>>

Num(n) == <<n, 1>>

\* IEEE results that are no number: nan is <<0, 0>>, inf <<1, 0>>, -inf <<-1, 0>>
FloatNaN == <<0, 0>>

IsFinite(x) == x[2] # 0

FAdd(x, y) ==
    IF IsFinite(x) /\ IsFinite(y) THEN Frac(x[1] * y[2] + y[1] * x[2], x[2] * y[2])
    ELSE IF IsFinite(y) THEN x
    ELSE IF IsFinite(x) THEN y
    ELSE IF x = y THEN x ELSE FloatNaN

FMul(x, y) ==
    IF IsFinite(x) /\ IsFinite(y) THEN Frac(x[1] * y[1], x[2] * y[2])
    ELSE <<Sign(x[1]) * Sign(y[1]), 0>>

\* numpy division: x/0 is inf or nan, never an exception
FDiv(x, y) ==
    IF IsFinite(x) /\ IsFinite(y)
    THEN IF y[1] = 0 THEN <<Sign(x[1]), 0>> ELSE Frac(x[1] * y[2], x[2] * y[1])
    ELSE IF IsFinite(y) THEN <<x[1] * (IF y[1] < 0 THEN -1 ELSE 1), 0>>
    ELSE IF IsFinite(x) THEN Num(0)
    ELSE FloatNaN

FNeg(x) == <<-x[1], x[2]>>

FSub(x, y) == FAdd(x, FNeg(y))

\* sum of f[x] over the finite set S, f integer valued
RECURSIVE Sum(_, _)
Sum(f, S) ==
    IF S = {} THEN 0
    ELSE LET x == CHOOSE x \in S : TRUE IN f[x] + Sum(f, S \ {x})

\* sum of f[x] over the finite set S, f float valued
RECURSIVE FSum(_, _)
FSum(f, S) ==
    IF S = {} THEN Num(0)
    ELSE LET x == CHOOSE x \in S : TRUE IN FAdd(f[x], FSum(f, S \ {x}))

Range(s) == {s[i] : i \in DOMAIN s}

-----------------------------------------------------------------------------
(* ZIP codes are strings of digits *)

\* int(zip_)
RECURSIVE StrToInt(_)
StrToInt(s) ==
    IF s = <<>> THEN 0
    ELSE 10 * StrToInt(SubSeq(s, 1, Len(s) - 1)) + s[Len(s)]

\* str(n) for n >= 0
RECURSIVE IntToStr(_)
IntToStr(n) == IF n < 10 THEN <<n>> ELSE IntToStr(n \div 10) \o <<n % 10>>

\* str.zfill(width)
RECURSIVE zfill(_, _)
zfill(s, width) == IF Len(s) >= width THEN s ELSE zfill(<<0>> \o s, width)

\* code_to_str(col, 5) of a numeric code read from the .xlsx
code_to_str(n, width) == zfill(IntToStr(n), width)

-----------------------------------------------------------------------------
(* Input data *)

\* rows of a HUD ZIP-county crosswalk .xlsx: ZIP 2 lies in one county, ZIP 5 in
\* two, ZIP 9 in two with no 'other' address in either
XlsxRows(r5) ==
    << [ZIP |-> 2, COUNTY |-> 1001, OTH_RATIO |-> Num(1)],
       [ZIP |-> 5, COUNTY |-> 1001, OTH_RATIO |-> Frac(1, 4)],
       [ZIP |-> 5, COUNTY |-> 1003, OTH_RATIO |-> r5],
       [ZIP |-> 9, COUNTY |-> 1003, OTH_RATIO |-> Num(0)],
       [ZIP |-> 9, COUNTY |-> 1005, OTH_RATIO |-> Num(0)] >>

\* the crosswalk as HUD publishes it, and one whose ratios of ZIP 5 do not total 1
XlsxFiles == {XlsxRows(Frac(3, 4)), XlsxRows(Frac(1, 4))}

\* ZIP codes of organizations: three of the crosswalk and one HUD could not geocode
OrgZips == {code_to_str(2, ZIP_WIDTH), code_to_str(5, ZIP_WIDTH),
            code_to_str(9, ZIP_WIDTH), code_to_str(6, ZIP_WIDTH)}

\* values of Type after JData.read_orgs (TYPE_NAMES)
OrgTypes == {"DaySch", "PTSch"}

\* values of Denom (DENOM_NAMES), a missing one, and the string 'None' a client
\* may have filled missing ones with
OrgDenoms == {"Orth", "Ref", NaN, "None"}

OrgKinds == [Zip : OrgZips, Type : OrgTypes, Denom : OrgDenoms]

\* the table with no rows
NoOrgs == [k \in OrgKinds |-> 0]

\* the table of the organizations of a sequence
RECURSIVE TableOf(_)
TableOf(s) ==
    IF s = <<>> THEN NoOrgs
    ELSE LET t == TableOf(Tail(s)) IN [t EXCEPT ![Head(s)] = @ + 1]

\* len(df)
NRows(df) == Sum(df, DOMAIN df)

\* df.loc[mask]: the rows of df of the kinds of mask
Rows(df, mask) == [k \in DOMAIN df |-> IF k \in mask THEN df[k] ELSE 0]

Present(df) == {k \in DOMAIN df : df[k] > 0}

\* df[col].unique()
Unique(df, col) == {k[col] : k \in Present(df)}

\* directories: MIN_VALID_ZIPS Orthodox day schools of ZIP 00002 and up to
\* MaxExtra organizations of the kinds given
Directories(kinds) ==
    LET common == [Zip |-> code_to_str(2, ZIP_WIDTH), Type |-> "DaySch", Denom |-> "Orth"]
        extras == UNION {[1..n -> kinds] : n \in 0..MaxExtra}
    IN  {[k \in OrgKinds |-> TableOf(e)[k] + IF k = common THEN MIN_VALID_ZIPS ELSE 0] :
            e \in extras}

\* day schools of every ZIP and denomination
DaySchools == {k \in OrgKinds : k.Type = "DaySch"}

\* organizations of two ZIP codes, of every type, whose denomination is one of
\* DENOM_NAMES or missing
TwoZips ==
    {k \in OrgKinds : /\ k.Zip \in {code_to_str(2, ZIP_WIDTH), code_to_str(5, ZIP_WIDTH)}
                      /\ k.Denom # "None"}

-----------------------------------------------------------------------------
(* hud_geo_conversions.py *)

\* read_zips_to_fips(fp): the table indexed by ZIP, one row per ZIP-county pair
read_zips_to_fips(xlsx) ==
    [i \in DOMAIN xlsx |->
        [ZIP |-> code_to_str(xlsx[i].ZIP, ZIP_WIDTH),
         FIPS |-> code_to_str(xlsx[i].COUNTY, ZIP_WIDTH),
         OTH_RATIO |-> xlsx[i].OTH_RATIO]]

-----------------------------------------------------------------------------
(* jdata_counties.py *)

Raised(msg) == [err |-> msg, df |-> None]

Returned(df) == [err |-> "", df |-> df]

\* an include / exclude argument: None, a str or a list of str
NoneArg == [k |-> "None", s |-> "", l |-> <<>>]

StrArg(s) == [k |-> "str", s |-> s, l |-> <<>>]

ListArg(l) == [k |-> "list", s |-> "", l |-> l]

\* if isinstance(x, str): x = [x]
AsList(arg) == IF arg.k = "str" THEN <<arg.s>> ELSE arg.l

\* DataFrame[['Type', 'Denom']].isin(values), per row; a missing value is in no
\* list of strings
IsIn(k, col, values) == k[col] # NaN /\ k[col] \in Range(values)

\* exclusion with .all(1): drops the rows whose Type and Denom are both excluded
_filter_excl_all(df, inc, exc) ==
    LET valid_vals == Unique(df, "Type") \cup Unique(df, "Denom")
        excl == AsList(exc)
        incl == AsList(inc)
        include_type == \E x \in Range(incl) : x \in Unique(df, "Type")
        include_denom == \E x \in Range(incl) : x \in Unique(df, "Denom")
        KeepAll(k) == IsIn(k, "Type", incl) /\ IsIn(k, "Denom", incl)
        KeepAny(k) == IsIn(k, "Type", incl) \/ IsIn(k, "Denom", incl)
        NotExcluded(k) == ~(IsIn(k, "Type", excl) /\ IsIn(k, "Denom", excl))
        df1 == IF exc # NoneArg THEN Rows(df, {k \in DOMAIN df : NotExcluded(k)}) ELSE df
    IN  IF exc # NoneArg /\ \E x \in Range(excl) : x \notin valid_vals
        THEN Raised("Values to be excluded must be in data.")
        ELSE IF inc = NoneArg THEN Returned(df1)
        ELSE IF \E x \in Range(incl) : x \notin valid_vals
        THEN Raised("Values to be included must be in data.")
        ELSE IF include_type /\ include_denom THEN Returned(Rows(df1, {k \in DOMAIN df1 : KeepAll(k)}))
        ELSE IF include_type \/ include_denom THEN Returned(Rows(df1, {k \in DOMAIN df1 : KeepAny(k)}))
        ELSE Returned(df1)

\* inclusion with .any(1) whatever the list names
_filter_incl_excl_bug(df, inc, exc) ==
    LET valid_types == Unique(df, "Type")
        valid_denoms == Unique(df, "Denom")
        valid_vals == valid_types \cup valid_denoms
        incl == AsList(inc)
        include_type == \E x \in Range(incl) : x \in valid_types
        include_denom == \E x \in Range(incl) : x \in valid_denoms
        KeepAny(k) == IsIn(k, "Type", incl) \/ IsIn(k, "Denom", incl)
    IN  IF exc # NoneArg /\ \E x \in Range(AsList(exc)) : x \notin valid_vals
        THEN Raised("Values to be excluded must be in data.")
        ELSE LET NotExcluded(k) ==
                     ~(IsIn(k, "Type", AsList(exc)) \/ IsIn(k, "Denom", AsList(exc)))
                 df1 == IF exc # NoneArg THEN Rows(df, {k \in DOMAIN df : NotExcluded(k)}) ELSE df
             IN  IF inc = NoneArg THEN Returned(df1)
                 ELSE IF \E x \in Range(incl) : x \notin valid_vals
                 THEN Raised("Values to be included must be in data.")
                 ELSE IF include_type \/ include_denom
                 THEN Returned(Rows(df1, {k \in DOMAIN df1 : KeepAny(k)}))
                 ELSE Returned(df1)

\* JDataCounties._filter_incl_excl(orgs_df, include, exclude)
_filter_incl_excl(df, inc, exc) ==
    LET valid_types == Unique(df, "Type")
        valid_denoms == Unique(df, "Denom")
        valid_vals == valid_types \cup valid_denoms
        incl == AsList(inc)
        include_type == \E x \in Range(incl) : x \in valid_types
        include_denom == \E x \in Range(incl) : x \in valid_denoms
        KeepAll(k) == IsIn(k, "Type", incl) /\ IsIn(k, "Denom", incl)
        KeepAny(k) == IsIn(k, "Type", incl) \/ IsIn(k, "Denom", incl)
    IN  IF exc # NoneArg /\ \E x \in Range(AsList(exc)) : x \notin valid_vals
        THEN Raised("Values to be excluded must be in data.")
        ELSE LET NotExcluded(k) ==
                     ~(IsIn(k, "Type", AsList(exc)) \/ IsIn(k, "Denom", AsList(exc)))
                 df1 == IF exc # NoneArg THEN Rows(df, {k \in DOMAIN df : NotExcluded(k)}) ELSE df
             IN  IF inc = NoneArg THEN Returned(df1)
                 ELSE IF \E x \in Range(incl) : x \notin valid_vals
                 THEN Raised("Values to be included must be in data.")
                 ELSE IF include_type /\ include_denom
                 THEN Returned(Rows(df1, {k \in DOMAIN df1 : KeepAll(k)}))
                 ELSE IF include_type \/ include_denom
                 THEN Returned(Rows(df1, {k \in DOMAIN df1 : KeepAny(k)}))
                 ELSE Returned(df1)

\* pd.get_dummies(orgs_df[['Type', 'Denom']], dummy_na=True).columns: a column per
\* value in the data and, for each categorical, the column of the missing value
DummyCols(df) ==
    {<<"Type", v>> : v \in Unique(df, "Type") \cup {NaN}}
        \cup {<<"Denom", v>> : v \in Unique(df, "Denom") \cup {NaN}}

\* JDataCounties._orgs_to_zip_cnts(orgs_df). The rename re.sub(r'\W', '_', x)
\* changes no name of DummyCols: 'Type_DaySch', 'Denom_nan' hold word characters only
_orgs_to_zip_cnts(df, xwalk) ==
    LET index == {xwalk[i].ZIP : i \in DOMAIN xwalk}
        valid == Sum(df, {k \in DOMAIN df : k.Zip \in index})
        cols == DummyCols(df)
        Dummy(k, c) == IF k[c[1]] = c[2] THEN 1 ELSE 0
    IN  IF valid < MIN_VALID_ZIPS THEN Raised("Zip codes are not valid.")
        ELSE Returned(
                [z \in Unique(df, "Zip") |->
                    [c \in cols |->
                        Sum([k \in DOMAIN df |-> df[k] * Dummy(k, c)],
                            {k \in DOMAIN df : k.Zip = z})]])

\* (zip_arr - int(zip_)).argmin(): the distance taken without np.abs
ArgMinDist_bug(zip_arr, n) ==
    CHOOSE i \in DOMAIN zip_arr :
        /\ \A j \in DOMAIN zip_arr : zip_arr[i] - n <= zip_arr[j] - n
        /\ \A j \in 1..(i - 1) : zip_arr[j] - n > zip_arr[i] - n

\* np.abs(zip_arr - int(zip_)).argmin(): the first position of the minimum
ArgMinDist(zip_arr, n) ==
    CHOOSE i \in DOMAIN zip_arr :
        /\ \A j \in DOMAIN zip_arr : Abs(zip_arr[i] - n) <= Abs(zip_arr[j] - n)
        /\ \A j \in 1..(i - 1) : Abs(zip_arr[j] - n) > Abs(zip_arr[i] - n)

\* the dict zip_ests: each ZIP of index that is no ZIP of zips, to its estimate
ZipEsts(index, zips) ==
    LET missing == index \ Range(zips)
        zip_arr == [i \in DOMAIN zips |-> StrToInt(zips[i])]
    IN  [z \in missing |->
            zfill(IntToStr(zip_arr[ArgMinDist(zip_arr, StrToInt(z))]), ZIP_WIDTH)]

\* DataFrame.rename(index=zip_ests) of one label
Renamed(z, zip_ests) == IF z \in DOMAIN zip_ests THEN zip_ests[z] ELSE z

\* the sum of the rows of a table of integer counts whose label is in S
SumRows(df, S, cols) == [c \in cols |-> Sum([z \in S |-> df[z][c]], S)]

Columns(df) == UNION {DOMAIN df[z] : z \in DOMAIN df}

\* JDataCounties._missing_zip_to_nearest(zip_cnts_df, to_fips)
_missing_zip_to_nearest(zip_cnts_df, xwalk) ==
    LET zip_ests == ZipEsts(DOMAIN zip_cnts_df, [i \in DOMAIN xwalk |-> xwalk[i].ZIP])
        labels == {Renamed(z, zip_ests) : z \in DOMAIN zip_cnts_df}
    IN  [z \in labels |->
            SumRows(zip_cnts_df,
                    {y \in DOMAIN zip_cnts_df : Renamed(y, zip_ests) = z},
                    Columns(zip_cnts_df))]

\* every ZIP weighted by OTH_RATIO, whatever its ratios total
_zip_cnts_to_fips_bug(zip_cnts_df, xwalk) ==
    LET fixed == _missing_zip_to_nearest(zip_cnts_df, xwalk)
        relevant == {i \in DOMAIN xwalk : xwalk[i].ZIP \in DOMAIN fixed}
        cols == Columns(fixed)
        New(i) == [c \in cols |-> FMul(Num(fixed[xwalk[i].ZIP][c]), xwalk[i].OTH_RATIO)]
    IN  Returned(
            [f \in {xwalk[i].FIPS : i \in relevant} |->
                [c \in cols |->
                    FSum([i \in relevant |-> New(i)[c]],
                         {i \in relevant : xwalk[i].FIPS = f})]])

\* JDataCounties._zip_cnts_to_fips(zip_cnts_df)
_zip_cnts_to_fips(zip_cnts_df, xwalk) ==
    LET fixed == _missing_zip_to_nearest(zip_cnts_df, xwalk)
        \* to_fips_revelent, as the positions of its rows
        relevant == {i \in DOMAIN xwalk : xwalk[i].ZIP \in DOMAIN fixed}
        fips_grp(z) == {i \in relevant : xwalk[i].ZIP = z}
        OthSum(z) == FSum([i \in fips_grp(z) |-> xwalk[i].OTH_RATIO], fips_grp(z))
        needs_imputed(z) == OthSum(z) # Num(1)
        imputed_ratio(z) == Frac(1, Cardinality(fips_grp(z)))
        weight(i) == IF needs_imputed(xwalk[i].ZIP) THEN imputed_ratio(xwalk[i].ZIP)
                     ELSE xwalk[i].OTH_RATIO
        cols == Columns(fixed)
        \* the Series appended to ls for row i of the crosswalk
        New(i) == [c \in cols |-> FMul(Num(fixed[xwalk[i].ZIP][c]), weight(i))]
    IN  IF \E z \in DOMAIN fixed : OthSum(z) # Num(1) /\ OthSum(z) # Num(0)
        THEN Raised("Ratios must total 1 to keep all orgs.")
        ELSE Returned(
                [f \in {xwalk[i].FIPS : i \in relevant} |->
                    [c \in cols |->
                        FSum([i \in relevant |-> New(i)[c]],
                             {i \in relevant : xwalk[i].FIPS = f})]])

\* 'None' in s, for the name s of a column: of the names the data can give,
\* only those with the word None hold it ('Denom_nan' does not)
HasNone(c) == \E i \in DOMAIN c : c[i] = "None"

\* sum(row) of a row of floats
RowSum(row) == FSum(row, DOMAIN row)

\* weighted_dist(row, none_col) of _impute_denoms_county_cnts
weighted_dist(row, none_col) ==
    LET none_cnt == row[none_col]
        total == FSub(RowSum(row), none_cnt)
    IN  IF total = Num(0)
        THEN [c \in DOMAIN row |->
                FAdd(row[c], FDiv(none_cnt, Num(Cardinality(DOMAIN row) - 1)))]
        ELSE [c \in DOMAIN row |->
                FAdd(row[c], FMul(FDiv(row[c], total), none_cnt))]

\* the columns cols of a row
Select(row, cols) == [c \in cols |-> row[c]]

\* JDataCounties._impute_denoms_county_cnts(df)
_impute_denoms_county_cnts(df) ==
    LET denom_cols == {c \in Columns(df) : c[1] = "Denom"}
        none_cols == {c \in denom_cols : HasNone(c)}
    IN  IF denom_cols = {} THEN Raised("No denomination columns found")
        ELSE IF Cardinality(none_cols) > 1
        THEN Raised("More than one None category count variable not supported")
        ELSE IF Cardinality(none_cols) = 1
        THEN LET none_col == CHOOSE c \in none_cols : TRUE
                 Dist(f) == IF df[f][none_col][1] > 0
                            THEN weighted_dist(Select(df[f], denom_cols), none_col)
                            ELSE Select(df[f], denom_cols)
                 spread == [f \in DOMAIN df |->
                             [c \in Columns(df) \ {none_col} |->
                                 IF c \in denom_cols THEN Dist(f)[c] ELSE df[f][c]]]
                 has_only_none == {f \in DOMAIN df :
                     RowSum(Select(spread[f], denom_cols \ {none_col})) = Num(0)}
             IN  Returned([f \in DOMAIN df \ has_only_none |-> spread[f]])
        ELSE Returned(df)

\* the two prefixes taken for each other
filter_categorical_bug(df, categorical) ==
    IF categorical = "denom"
    THEN Returned([f \in DOMAIN df |->
                     Select(df[f], {c \in Columns(df) : c[1] = "Type"})])
    ELSE IF categorical = "type"
    THEN Returned([f \in DOMAIN df |->
                     Select(df[f], {c \in Columns(df) : c[1] = "Denom"})])
    ELSE IF categorical # "both"
    THEN Raised("categorical arg must be either both, denom or type.")
    ELSE Returned(df)

\* JDataCounties.filter_categorical(cnty_df, categorical)
filter_categorical(df, categorical) ==
    IF categorical = "denom"
    THEN Returned([f \in DOMAIN df |->
                     Select(df[f], {c \in Columns(df) : c[1] = "Denom"})])
    ELSE IF categorical = "type"
    THEN Returned([f \in DOMAIN df |->
                     Select(df[f], {c \in Columns(df) : c[1] = "Type"})])
    ELSE IF categorical # "both"
    THEN Raised("categorical arg must be either both, denom or type.")
    ELSE Returned(df)

TYPE_COLS ==
    << <<"Type", "DaySch">>, <<"Type", "PTSch">>, <<"Type", "EarlyChild">>,
       <<"Type", "DayCamp">>, <<"Type", "OverCamp">> >>

DENOM_COLS ==
    << <<"Denom", "Orth">>, <<"Denom", "Seph">>, <<"Denom", "Trad">>,
       <<"Denom", "Consv">>, <<"Denom", "Recon">>, <<"Denom", "Ref">>,
       <<"Denom", "Comm">>, <<"Denom", "PlurTrans">>, <<"Denom", "Hum">>,
       <<"Denom", "Sec">>, <<"Denom", "Oth">>, <<"Denom", "NonDenom">>,
       <<"Denom", "Zionist">> >>

\* DataFrame.values.sum()
ValuesSum(df) == FSum([f \in DOMAIN df |-> RowSum(df[f])], DOMAIN df)

\* DataFrame.reindex(columns=[col for col in TYPE_COLS + DENOM_COLS
\*                            if col in df.columns])
Reordered(df) ==
    LET reordered == {c \in Range(TYPE_COLS \o DENOM_COLS) : c \in Columns(df)}
    IN  [f \in DOMAIN df |-> Select(df[f], reordered)]

\* JData.read_orgs(fp, clean=True, only_usa=True) through JDataCounties.read_orgs:
\* the cleaned American organizations of the file
read_orgs(fp) == fp

NoFrame == [zip_ests |-> None, zip_fixed |-> None, fips_cnts |-> None, imputed |-> None]

\* the two filters never taken as given together
BothGiven_bug(inc, exc) == FALSE

\* if include is not None and exclude is not None
BothGiven(inc, exc) == inc # NoneArg /\ exc # NoneArg

\* JDataCounties.get_county_cnts(categorical, include, exclude, reload_orgs) from
\* the statement after the copy of orgs_df on: how the call ends (err), what it
\* leaves in _orgs_df, what it assigns to _zip_cnts_df and cnty_df, if it gets
\* there (zips_set, cnty_set), the locals of its helpers and what it returns.
\* interned: whether the str passed as categorical is the object of the literal
\* 'both', which is what "categorical is 'both'" tests
get_county_cnts(loaded, xwalk, categorical, interned, inc, exc) ==
    LET filtered == _filter_incl_excl(loaded, inc, exc)
        kept == IF inc # NoneArg \/ exc # NoneArg THEN filtered.df ELSE loaded
        zips == _orgs_to_zip_cnts(kept, xwalk)
        fips == _zip_cnts_to_fips(zips.df, xwalk)
        imputed == _impute_denoms_county_cnts(fips.df)
        selected == filter_categorical(imputed.df, categorical)
        norm == IF categorical = "both" /\ interned THEN 2 ELSE 1
        total_cnts == FDiv(ValuesSum(selected.df), Num(norm))
        source_ref == NRows(kept)
        zip_locals == [NoFrame EXCEPT
            !.zip_ests = ZipEsts(DOMAIN zips.df, [i \in DOMAIN xwalk |-> xwalk[i].ZIP]),
            !.zip_fixed = _missing_zip_to_nearest(zips.df, xwalk)]
        locals == [zip_locals EXCEPT !.fips_cnts = fips.df, !.imputed = imputed.df]
        Out(err, orgs, zips_set, cnty_set, cnty, fr, value) ==
            [err |-> err, orgs |-> orgs, zips_set |-> zips_set, zips |-> zips.df,
             cnty_set |-> cnty_set, cnty |-> cnty, frame |-> fr, value |-> value]
    IN  IF BothGiven(inc, exc)
        THEN Out("Cannot pass both include and exclude kwargs.",
                 loaded, FALSE, FALSE, None, NoFrame, None)
        ELSE IF (inc # NoneArg \/ exc # NoneArg) /\ filtered.err # ""
        THEN Out(filtered.err, loaded, FALSE, FALSE, None, NoFrame, None)
        ELSE IF zips.err # ""
        THEN Out(zips.err, kept, FALSE, FALSE, None, NoFrame, None)
        ELSE IF fips.err # ""
        THEN Out(fips.err, kept, TRUE, FALSE, None, zip_locals, None)
        ELSE IF imputed.err # ""
        THEN Out(imputed.err, kept, TRUE, FALSE, None,
                 [locals EXCEPT !.imputed = None], None)
        ELSE IF selected.err # ""
        THEN Out(selected.err, kept, TRUE, TRUE, imputed.df, locals, None)
        ELSE IF \E f \in DOMAIN selected.df : f \notin {xwalk[i].FIPS : i \in DOMAIN xwalk}
        THEN Out("County FIPS codes index not valid",
                 kept, TRUE, TRUE, selected.df, locals, None)
        ELSE IF total_cnts # Num(source_ref)
        THEN Out("total county counts does not match JData orgs",
                 kept, TRUE, TRUE, selected.df, locals, None)
        ELSE Out("", kept, TRUE, TRUE, Reordered(selected.df), locals,
                 Reordered(selected.df))

-----------------------------------------------------------------------------
(* jewish_county_data.py: the functions on tables                            *)

\* the labels of a set of ZIP codes in the order groupby('Zip') gives its groups
RECURSIVE SortedZips(_)
SortedZips(S) ==
    IF S = {} THEN <<>>
    ELSE LET m == CHOOSE x \in S : \A y \in S : StrToInt(x) <= StrToInt(y)
         IN  <<m>> \o SortedZips(S \ {m})

\* the names of the dummy columns that hold 1 for an organization: names are
\* sequences of words, <<"Type", "DaySch">> for 'Type_DaySch'
DummiesOf(k, how) ==
    IF how = "type" THEN {<<k.Type>>}
    ELSE IF how = "denom" THEN {<<k.Denom>>}
    ELSE IF how = "combined" THEN {<<k.Type, k.Denom>>}
    ELSE {<<"Type", k.Type>>, <<"Denom", k.Denom>>}

\* how 'all' taken as the dummies of the Type column alone
types_denoms_to_dummies_bug(jdata_, how) ==
    LET Dummies(k) == IF how = "all" THEN {<<"Type", k.Type>>} ELSE DummiesOf(k, how)
        cols == UNION {Dummies(k) : k \in Present(jdata_)}
    IN  [k \in Present(jdata_) |-> [c \in cols |-> IF c \in Dummies(k) THEN 1 ELSE 0]]

\* types_denoms_to_dummies(jdata, how): the dummy columns of each organization
\* (the other columns of jdata hold strings, which groupby('Zip').sum() drops)
types_denoms_to_dummies(jdata_, how) ==
    LET cols == UNION {DummiesOf(k, how) : k \in Present(jdata_)}
    IN  [k \in Present(jdata_) |->
            [c \in cols |-> IF c \in DummiesOf(k, how) THEN 1 ELSE 0]]

how_params == {"simple", "type", "denom", "all", "combined"}

\* aggr_jdata_to_zip(jdata, how). Every organization has a Name, so that
\* zip_grps.Name.count() counts the organizations of the ZIP
aggr_jdata_to_zip(jdata_, how) ==
    IF \E k \in Present(jdata_) : k.Type = NaN \/ k.Denom = NaN
    THEN Raised("AssertionError: Type and/or denom columns have missing values.")
    ELSE IF how \notin how_params
    THEN Raised("AssertionError: Invalid how parameter passed.")
    ELSE IF how = "simple"
    THEN Returned([z \in Unique(jdata_, "Zip") |->
                     [c \in {<<"Tot", "Orgs">>} |->
                         Sum(jdata_, {k \in DOMAIN jdata_ : k.Zip = z})]])
    ELSE LET dummies == types_denoms_to_dummies(jdata_, how)
         IN  Returned([z \in Unique(jdata_, "Zip") |->
                         [c \in Columns(dummies) |->
                             Sum([k \in DOMAIN dummies |-> jdata_[k] * dummies[k][c]],
                                 {k \in DOMAIN dummies : k.Zip = z})]])

\* missing_zip_to_nearest(jd_zip_cnts, zips_to_fips): the rows of the count table
\* in their order, relabelled; two rows may now bear one label
missing_zip_to_nearest(jd_zip_cnts_, zips_to_fips_) ==
    LET zip_ests == ZipEsts(DOMAIN jd_zip_cnts_,
                            [i \in DOMAIN zips_to_fips_ |-> zips_to_fips_[i].ZIP])
        index == SortedZips(DOMAIN jd_zip_cnts_)
    IN  [n \in DOMAIN index |->
            [ZIP |-> Renamed(index[n], zip_ests), row |-> jd_zip_cnts_[index[n]]]]

\* the crosswalk handed back as it came
impute_missing_oth_ratio_bug(df, zips_to_fips_) == zips_to_fips_

\* impute_missing_oth_ratio(jd_zip_cnts, zips_to_fips): the crosswalk, which the
\* function changes in place, after the call
impute_missing_oth_ratio(df, zips_to_fips_) ==
    LET relevant == {i \in DOMAIN zips_to_fips_ :
                        \E n \in DOMAIN df : df[n].ZIP = zips_to_fips_[i].ZIP}
        grp(i) == {j \in relevant : zips_to_fips_[j].ZIP = zips_to_fips_[i].ZIP}
        to_impute == {i \in relevant :
                        \A j \in grp(i) : zips_to_fips_[j].OTH_RATIO = Num(0)}
    IN  [i \in DOMAIN zips_to_fips_ |->
            IF i \in to_impute
            THEN [zips_to_fips_[i] EXCEPT !.OTH_RATIO = FDiv(Num(1), Num(Cardinality(grp(i))))]
            ELSE zips_to_fips_[i]]

\* jd_zip_cnts_to_county(jd_zip_cnts, zips_to_fips): the table returned and the
\* crosswalk after the call. df.join gives a row per row n of the count table
\* and row i of the crosswalk with its label, weights a ratio per such pair in
\* the same order, and groupby(df.index).sum() adds the weighted rows of a
\* label, leaving out FIPS, which holds strings
jd_zip_cnts_to_county(jd_zip_cnts_, zips_to_fips_) ==
    LET df == missing_zip_to_nearest(jd_zip_cnts_, zips_to_fips_)
        xwalk == impute_missing_oth_ratio(df, zips_to_fips_)
        joined == {p \in (DOMAIN df) \X (DOMAIN xwalk) : df[p[1]].ZIP = xwalk[p[2]].ZIP}
        cols == Columns(jd_zip_cnts_)
        weighted(p, c) == FMul(Num(df[p[1]].row[c]), xwalk[p[2]].OTH_RATIO)
    IN  [zips_to_fips |-> xwalk,
         df |-> [z \in {df[n].ZIP : n \in DOMAIN df} |->
                    [c \in cols |->
                        FSum([p \in joined |-> weighted(p, c)],
                             {p \in joined : df[p[1]].ZIP = z})]]]

\* impute_none_denoms(df, none_col)
impute_none_denoms(df, none_col) ==
    [f \in DOMAIN df |->
        LET none_cnt == df[f][none_col]
            total == FSub(RowSum(df[f]), none_cnt)
        IN  [c \in DOMAIN df[f] \ {none_col} |->
                FAdd(df[f][c], FMul(FDiv(df[f][c], total), none_cnt))]]

\* clean_jdata_county(df), to the call of impute_none_denoms
clean_jdata_county(df) ==
    LET none_col == {c \in Columns(df) : HasNone(c)}
    IN  IF Cardinality(none_col) # 1
        THEN Raised("AssertionError: Cannot find unique or any feature for missing denominations")
        ELSE Returned(impute_none_denoms(df, CHOOSE c \in none_col : TRUE))

-----------------------------------------------------------------------------
(* Arguments of the calls *)

Categoricals == {"both", "denom", "type", "org_type"}

Includes == {NoneArg, StrArg("DaySch"), ListArg(<<"Orth">>),
             ListArg(<<"DaySch", "Orth">>), ListArg(<<"Zionist">>)}

Excludes == {NoneArg, StrArg("PTSch"), ListArg(<<"Ref">>),
             ListArg(<<"PTSch", "Ref">>)}

Filters == {<<i, NoneArg>> : i \in Includes} \cup {<<NoneArg, e>> : e \in Excludes}
               \cup {<<ListArg(<<"Orth">>), StrArg("PTSch")>>}

FewFilters == {<<NoneArg, NoneArg>>, <<ListArg(<<"Orth">>), NoneArg>>,
               <<NoneArg, ListArg(<<"Ref">>)>>}

-----------------------------------------------------------------------------
(* A JDataCounties object and the client that makes it and calls              *)
(* get_county_cnts, as one_org_or_more_counties does                          *)

FnIdle ==
    /\ jdata = None
    /\ zips_to_fips = None
    /\ jd_zip_cnts = None
    /\ jd_county = None
    /\ fn_frame = None

\* no call of read_zips_to_fips, read_counties, merge_similar_denoms or
\* draw_county_data_svg
ToolsIdle ==
    /\ xlsx_read = <<>>
    /\ hud_result = None
    /\ acs_csv = None
    /\ acs_result = None
    /\ denom_cnts = None
    /\ merge_result = None
    /\ svg_args = None
    /\ svg_result = None

\* JDataCounties.__init__(jdata_org_fp, zips_to_fips_fp)
__init__(xlsx, directories) ==
    /\ to_fips \in {read_zips_to_fips(x) : x \in xlsx}
    /\ jdata_org_fp \in directories
    /\ orgs_df = None
    /\ _zip_cnts_df = None
    /\ _orgs_df = None
    /\ cnty_df = None
    /\ include = NoneArg
    /\ exclude = NoneArg
    /\ call = None
    /\ frame = NoFrame
    /\ result = None

\* the table get_county_cnts works on: "if self.orgs_df is None or reload_orgs:
\* self.orgs_df = self.read_orgs(self.jdata_org_fp)", the file being read again
\* whatever the client did to orgs_df
Loaded_reread(orgs, fp, reload_orgs) == read_orgs(fp)

\* the same, reload_orgs never looked at
Loaded_noreload(orgs, fp, reload_orgs) == IF orgs = None THEN read_orgs(fp) ELSE orgs

\* self.orgs_df after "if self.orgs_df is None or reload_orgs:
\*     self.orgs_df = self.read_orgs(self.jdata_org_fp)"
Loaded(orgs, fp, reload_orgs) ==
    IF orgs = None \/ reload_orgs THEN read_orgs(fp) ELSE orgs

\* a call of get_county_cnts on the object: call.n counts the calls made
CallGetCountyCnts(categoricals, filters, reloads) ==
    /\ \E categorical \in categoricals, f \in filters, reload_orgs \in reloads :
         \E interned \in (IF categorical = "both" THEN BOOLEAN ELSE {TRUE}) :
            \E loaded \in {Loaded(orgs_df, jdata_org_fp, reload_orgs)} :
            \E out \in {get_county_cnts(loaded, to_fips, categorical, interned, f[1], f[2])} :
                /\ include' = f[1]
                /\ exclude' = f[2]
                /\ orgs_df' = loaded
                /\ _orgs_df' = out.orgs
                /\ _zip_cnts_df' = IF out.zips_set THEN out.zips ELSE _zip_cnts_df
                /\ cnty_df' = IF out.cnty_set THEN out.cnty ELSE cnty_df
                /\ call' = [categorical |-> categorical, interned |-> interned,
                            reload_orgs |-> reload_orgs,
                            n |-> IF call = None THEN 1 ELSE call.n + 1]
                /\ frame' = out.frame
                /\ result' = IF out.err = ""
                             THEN [status |-> "returned", msg |-> "", value |-> out.value]
                             ELSE [status |-> "ValueError", msg |-> out.err, value |-> None]
    /\ UNCHANGED <<to_fips, jdata_org_fp>>
    /\ UNCHANGED fn_vars
    /\ UNCHANGED tool_vars

\* the first call of get_county_cnts on the object
GetCountyCnts(categoricals, filters, reloads) ==
    /\ result = None
    /\ CallGetCountyCnts(categoricals, filters, reloads)

Init == __init__(XlsxFiles, Directories(DaySchools)) /\ FnIdle /\ ToolsIdle

Next == GetCountyCnts(Categoricals, FewFilters, {FALSE})

Spec == Init /\ [][Next]_vars

InitFilter == __init__({XlsxRows(Frac(3, 4))}, Directories(TwoZips)) /\ FnIdle /\ ToolsIdle

NextFilter == GetCountyCnts({"both", "denom"}, Filters, {FALSE})

SpecFilter == InitFilter /\ [][NextFilter]_vars

-----------------------------------------------------------------------------
(* A client of jewish_county_data.py that aggregates a directory by ZIP and  *)
(* converts the counts, as test_jewish_county_data.py does                   *)

\* kinds of organizations of the directories of the client: the day schools and
\* the Reform part-time schools of ZIP 00005
FnKinds ==
    {k \in OrgKinds : \/ k.Type = "DaySch"
                      \/ k.Zip = code_to_str(5, ZIP_WIDTH) /\ k.Denom = "Ref"}

\* directories of 1 to MaxOrgs organizations
FnDirectories == {TableOf(e) : e \in UNION {[1..n -> FnKinds] : n \in 1..MaxOrgs}}

\* values of how: HOW_PARAMS of the test and one that is no mode
Hows == how_params \cup {"both"}

\* no JDataCounties object
ClassIdle ==
    /\ to_fips = None
    /\ jdata_org_fp = None
    /\ orgs_df = None
    /\ _zip_cnts_df = None
    /\ _orgs_df = None
    /\ cnty_df = None
    /\ include = NoneArg
    /\ exclude = NoneArg
    /\ call = None
    /\ frame = NoFrame
    /\ result = None

\* jd_zip_cnts = aggr_jdata_to_zip(jdata, how=how)
AggrJdataToZip ==
    /\ fn_frame = None
    /\ \E how \in Hows :
          \E out \in {aggr_jdata_to_zip(jdata, how)} :
             /\ jd_zip_cnts' = out.df
             /\ fn_frame' = [how |-> how, err |-> out.err, imputed |-> None]
    /\ UNCHANGED <<jdata, zips_to_fips, jd_county>>
    /\ UNCHANGED class_vars
    /\ UNCHANGED tool_vars

\* result = jd_zip_cnts_to_county(jd_zip_cnts, zips_to_fips)
JdZipCntsToCounty ==
    /\ jd_zip_cnts # None
    /\ jd_county = None
    /\ \E out \in {jd_zip_cnts_to_county(jd_zip_cnts, zips_to_fips)} :
          /\ jd_county' = out.df
          /\ zips_to_fips' = out.zips_to_fips
    /\ UNCHANGED <<jdata, jd_zip_cnts, fn_frame>>
    /\ UNCHANGED class_vars
    /\ UNCHANGED tool_vars

\* the crosswalk as HUD publishes it, with ZIP as a column, and a directory
InitFn ==
    /\ ClassIdle
    /\ ToolsIdle
    /\ jdata \in FnDirectories
    /\ zips_to_fips = read_zips_to_fips(XlsxRows(Frac(3, 4)))
    /\ jd_zip_cnts = None
    /\ jd_county = None
    /\ fn_frame = None

\* clean_jdata_county(jd_county) on the counts by denomination
CleanJdataCounty ==
    /\ jd_county # None
    /\ fn_frame.how = "denom"
    /\ fn_frame.imputed = None
    /\ fn_frame' = [fn_frame EXCEPT !.imputed = clean_jdata_county(jd_county)]
    /\ UNCHANGED <<jdata, zips_to_fips, jd_zip_cnts, jd_county>>
    /\ UNCHANGED class_vars
    /\ UNCHANGED tool_vars

NextFn == AggrJdataToZip \/ JdZipCntsToCounty \/ CleanJdataCounty

SpecFn == InitFn /\ [][NextFn]_vars

-----------------------------------------------------------------------------
(* Properties of a call of get_county_cnts (Spec)                            *)

\* C3: after _zip_cnts_to_fips, a county holds, in every column, the sum over
\* the ZIP-county pairs of the crosswalk that name it of the ZIP's count times
\* the pair's OTH_RATIO or, when all the ratios of the ZIP are zero, of the
\* ZIP's count divided by the number n of counties of the ZIP; the counties of
\* the table are those the ZIPs of the count table map to.
C3_ZipCntsSpreadByRatio ==
    frame.fips_cnts # None =>
        LET zc == frame.zip_fixed
            pairs(z) == {i \in DOMAIN to_fips : to_fips[i].ZIP = z}
            all_zero(z) == \A i \in pairs(z) : to_fips[i].OTH_RATIO = Num(0)
            received(i, c) ==
                IF all_zero(to_fips[i].ZIP)
                THEN FDiv(Num(zc[to_fips[i].ZIP][c]), Num(Cardinality(pairs(to_fips[i].ZIP))))
                ELSE FMul(Num(zc[to_fips[i].ZIP][c]), to_fips[i].OTH_RATIO)
            from == {i \in DOMAIN to_fips : to_fips[i].ZIP \in DOMAIN zc}
        IN  /\ DOMAIN frame.fips_cnts = {to_fips[i].FIPS : i \in from}
            /\ \A f \in DOMAIN frame.fips_cnts : \A c \in DOMAIN frame.fips_cnts[f] :
                  frame.fips_cnts[f][c] =
                      FSum([i \in from |-> received(i, c)],
                           {i \in from : to_fips[i].FIPS = f})

\* a county table made from a ZIP whose ratios are all zero and from a ZIP
\* split between two counties, both holding organizations
C3_Witness ==
    /\ frame.fips_cnts # None
    /\ \E z \in DOMAIN frame.zip_fixed :
          /\ \A i \in DOMAIN to_fips : to_fips[i].ZIP = z => to_fips[i].OTH_RATIO = Num(0)
          /\ \E c \in DOMAIN frame.zip_fixed[z] : frame.zip_fixed[z][c] > 0
    /\ \E z \in DOMAIN frame.zip_fixed :
          /\ \E i \in DOMAIN to_fips :
                to_fips[i].ZIP = z /\ to_fips[i].OTH_RATIO \notin {Num(0), Num(1)}
          /\ \E c \in DOMAIN frame.zip_fixed[z] : frame.zip_fixed[z][c] > 0

\* C4: _missing_zip_to_nearest maps every ZIP of the count table that is no ZIP
\* of the crosswalk to a crosswalk ZIP at the least absolute difference of the
\* integer values, maps no ZIP of the crosswalk, and the table it returns is
\* indexed by the ZIPs so obtained.
C4_MissingZipToNearest ==
    frame.zip_fixed # None =>
        LET index == DOMAIN _zip_cnts_df
            known == {to_fips[i].ZIP : i \in DOMAIN to_fips}
            dist(a, b) == Abs(StrToInt(a) - StrToInt(b))
            becomes(z) == IF z \in DOMAIN frame.zip_ests THEN frame.zip_ests[z] ELSE z
        IN  /\ \A z \in index \cap known : becomes(z) = z
            /\ \A z \in index \ known :
                  /\ becomes(z) \in known
                  /\ \A y \in known : dist(z, becomes(z)) <= dist(z, y)
            /\ DOMAIN frame.zip_fixed = {becomes(z) : z \in index}

\* a count table with a ZIP absent from the crosswalk and a ZIP of the crosswalk
\* that is not the nearest one
C4_Witness ==
    /\ frame.zip_fixed # None
    /\ \E z \in DOMAIN _zip_cnts_df :
          /\ z \in DOMAIN frame.zip_ests
          /\ frame.zip_ests[z] # z
          /\ \E y \in DOMAIN _zip_cnts_df :
                y \notin DOMAIN frame.zip_ests /\ y # frame.zip_ests[z]

\* the columns that count the organizations whose denomination is missing
MissingDenomCols == {<<"Denom", NaN>>, <<"Denom", "None">>}

\* C5: after denomination imputation no county holds organizations in a
\* missing-denomination column, every county's total over the other Denom_
\* columns is its total over all Denom_ columns before, and the counts of any
\* two other denominations of a county keep their ratio.
C5_ImputationSpreadsMissing ==
    frame.imputed # None =>
        \A f \in DOMAIN frame.fips_cnts :
            LET before == frame.fips_cnts[f]
                denom_cols == {c \in DOMAIN before : c[1] = "Denom"}
                others == denom_cols \ MissingDenomCols
            IN  /\ f \in DOMAIN frame.imputed
                /\ \A c \in MissingDenomCols \cap DOMAIN frame.imputed[f] :
                      frame.imputed[f][c] = Num(0)
                /\ others \subseteq DOMAIN frame.imputed[f]
                /\ RowSum(Select(frame.imputed[f], others))
                      = RowSum(Select(before, denom_cols))
                /\ \A c, d \in others :
                      FMul(before[c], frame.imputed[f][d])
                          = FMul(before[d], frame.imputed[f][c])

\* C6: the values of a returned county table, over 2 if categorical is 'both',
\* total the number of organizations left by the filters.
C6_ReturnedTableCountsOrgs ==
    (result # None /\ result.status = "returned") =>
        FDiv(ValuesSum(result.value), Num(IF call.categorical = "both" THEN 2 ELSE 1))
            = Num(NRows(_orgs_df))

\* C10: what a call with categorical 'denom' or 'type' returns is what the call
\* with categorical 'both' on the same organizations and filters returns, cut
\* to the Denom_ or the Type_ columns.
C10_CategoricalLeavesCounts ==
    (result # None /\ result.status = "returned" /\ call.categorical \in {"denom", "type"}) =>
        \E both \in {get_county_cnts(orgs_df, to_fips, "both", TRUE, include, exclude)} :
            LET prefix == IF call.categorical = "denom" THEN "Denom" ELSE "Type"
            IN  /\ both.err = ""
                /\ DOMAIN result.value = DOMAIN both.value
                /\ \A f \in DOMAIN result.value :
                      result.value[f] =
                          Select(both.value[f], {c \in DOMAIN both.value[f] : c[1] = prefix})

\* a filtered call with categorical 'denom' that returned counts of two counties
C10_Witness ==
    /\ result # None
    /\ result.status = "returned"
    /\ call.categorical = "denom"
    /\ include # NoneArg
    /\ Cardinality(DOMAIN result.value) >= 2
    /\ \E f \in DOMAIN result.value : \E c \in DOMAIN result.value[f] :
          result.value[f][c] \notin {Num(0), Num(MIN_VALID_ZIPS)}

-----------------------------------------------------------------------------
(* Properties of the include and exclude arguments (SpecFilter)              *)

\* C7: a call of get_county_cnts given both an include and an exclude argument
\* raises ValueError('Cannot pass both include and exclude kwargs.') and
\* returns no county table.
C7_BothFiltersRaise ==
    (result # None /\ include # NoneArg /\ exclude # NoneArg) =>
        /\ result.status = "ValueError"
        /\ result.msg = "Cannot pass both include and exclude kwargs."
        /\ result.value = None

\* a call given both arguments has ended, on a directory that holds
\* organizations the two arguments name
C7_Witness ==
    /\ result # None
    /\ include # NoneArg
    /\ exclude # NoneArg
    /\ \E k \in DOMAIN orgs_df : orgs_df[k] > 0 /\ k.Type \in Range(AsList(exclude))

\* C8: after include filtering, when the list names values of Type and values
\* of Denom the organizations kept are those whose Type is in the list and
\* whose Denom is in the list; when it names values of one of the two only,
\* those whose value of that one is in the list.
C8_IncludeKeeps ==
    (/\ result # None
     /\ include # NoneArg
     /\ exclude = NoneArg
     /\ result.msg # "Values to be included must be in data.") =>
        LET incl == Range(AsList(include))
            names_type == incl \cap OrgTypes # {}
            names_denom == incl \cap (OrgDenoms \ {NaN}) # {}
            Kept(k) == IF names_type /\ names_denom
                       THEN k.Type \in incl /\ k.Denom \in incl
                       ELSE IF names_type THEN k.Type \in incl
                       ELSE k.Denom \in incl
        IN  \A k \in DOMAIN orgs_df :
                _orgs_df[k] = IF Kept(k) THEN orgs_df[k] ELSE 0

\* a list of a Type and a Denom has dropped an organization of the Type, has
\* dropped one of the Denom, and has kept some
C8_Witness ==
    /\ result # None
    /\ exclude = NoneArg
    /\ include = ListArg(<<"DaySch", "Orth">>)
    /\ \E k \in DOMAIN orgs_df :
          orgs_df[k] > 0 /\ k.Type = "DaySch" /\ k.Denom # "Orth" /\ _orgs_df[k] = 0
    /\ \E k \in DOMAIN orgs_df :
          orgs_df[k] > 0 /\ k.Type # "DaySch" /\ k.Denom = "Orth" /\ _orgs_df[k] = 0
    /\ \E k \in DOMAIN orgs_df : _orgs_df[k] > 0

\* C9: after exclude filtering, the organizations dropped are those whose Type
\* or whose Denom is an excluded value; the others are kept as they were.
C9_ExcludeDrops ==
    (/\ result # None
     /\ exclude # NoneArg
     /\ include = NoneArg
     /\ result.msg # "Values to be excluded must be in data.") =>
        LET excl == Range(AsList(exclude))
        IN  \A k \in DOMAIN orgs_df :
                _orgs_df[k] = IF k.Type \in excl \/ k.Denom \in excl
                              THEN 0 ELSE orgs_df[k]

\* a list of a Type and a Denom has dropped an organization of the Type alone
\* and one of the Denom alone, and has kept the others
C9_Witness ==
    /\ result # None
    /\ include = NoneArg
    /\ exclude = ListArg(<<"PTSch", "Ref">>)
    /\ result.msg # "Values to be excluded must be in data."
    /\ \E k \in DOMAIN orgs_df :
          orgs_df[k] > 0 /\ k.Type = "PTSch" /\ k.Denom # "Ref" /\ _orgs_df[k] = 0
    /\ \E k \in DOMAIN orgs_df :
          orgs_df[k] > 0 /\ k.Type # "PTSch" /\ k.Denom = "Ref" /\ _orgs_df[k] = 0
    /\ \E k \in DOMAIN orgs_df : _orgs_df[k] > 0

-----------------------------------------------------------------------------
(* Properties of the functions on tables (SpecFn)                            *)

\* C1: in every mode how, the cells of the table jd_zip_cnts_to_county returns
\* total the number of organizations of the directory (twice that number in
\* mode 'all').
C1_CountyCntsConserveOrgs ==
    jd_county # None =>
        FDiv(ValuesSum(jd_county), Num(IF fn_frame.how = "all" THEN 2 ELSE 1))
            = Num(NRows(jdata))

\* counts converted in mode 'all' of a directory with an organization in a ZIP
\* whose ratios are all zero and one in a ZIP absent from the crosswalk
C1_Witness ==
    /\ jd_county # None
    /\ fn_frame.how = "all"
    /\ \E k \in Present(jdata) :
          \A i \in DOMAIN zips_to_fips : zips_to_fips[i].ZIP # k.Zip
    /\ \E k \in Present(jdata) : \E i \in DOMAIN zips_to_fips :
          /\ zips_to_fips[i].ZIP = k.Zip
          /\ zips_to_fips[i].OTH_RATIO \notin {Num(0), Num(1), Frac(1, 4), Frac(3, 4)}

\* C2: in each of the modes type, denom, all and combined, aggr_jdata_to_zip
\* gives the ZIP codes mode 'simple' gives, and the total of the row of a ZIP
\* (halved, as an integer, in mode 'all') is the Tot_Orgs of the ZIP in mode
\* 'simple'.
C2_RowTotalsMatchSimple ==
    (jd_zip_cnts # None /\ fn_frame.how # "simple") =>
        LET bench == aggr_jdata_to_zip(jdata, "simple").df
            total(z) == Sum(jd_zip_cnts[z], DOMAIN jd_zip_cnts[z])
        IN  /\ DOMAIN jd_zip_cnts = DOMAIN bench
            /\ \A z \in DOMAIN jd_zip_cnts :
                  (IF fn_frame.how = "all" THEN total(z) \div 2 ELSE total(z))
                      = bench[z][<<"Tot", "Orgs">>]

\* counts in mode 'all' of two organizations of one ZIP that differ in Type and
\* in Denom
C2_Witness ==
    /\ jd_zip_cnts # None
    /\ fn_frame.how = "all"
    /\ \E k1, k2 \in Present(jdata) :
          k1.Zip = k2.Zip /\ k1.Type # k2.Type /\ k1.Denom # k2.Denom

-----------------------------------------------------------------------------
(* A session on one JDataCounties object: the client calls get_county_cnts   *)
(* several times and changes orgs_df between the calls                        *)

\* organizations of the session's directories beyond the common ones
SessionKinds ==
    {[Zip |-> code_to_str(5, ZIP_WIDTH), Type |-> "DaySch", Denom |-> NaN],
     [Zip |-> code_to_str(5, ZIP_WIDTH), Type |-> "PTSch", Denom |-> "Ref"],
     [Zip |-> code_to_str(9, ZIP_WIDTH), Type |-> "DaySch", Denom |-> "Ref"]}

\* include and exclude of the session's calls: none, one that filters, and both
SessionFilters == {<<NoneArg, NoneArg>>, <<StrArg("DaySch"), NoneArg>>,
                   <<ListArg(<<"Orth">>), StrArg("PTSch")>>}

\* jd.orgs_df['Denom'] = jd.orgs_df.Denom.fillna('None')
FillDenoms(df) ==
    [k \in DOMAIN df |->
        IF k.Denom = NaN THEN 0
        ELSE IF k.Denom = "None" THEN df[k] + df[[k EXCEPT !.Denom = NaN]]
        ELSE df[k]]

\* jd.orgs_df = jd.orgs_df[jd.orgs_df.Denom != 'Ref']
DropReform(df) == Rows(df, {k \in DOMAIN df : k.Denom # "Ref"})

\* "If client makes changes to self.orgs_df, those are preserved": the client
\* changes the loaded table between two calls
ClientEdit ==
    /\ orgs_df # None
    /\ orgs_df' \in {FillDenoms(orgs_df), DropReform(orgs_df)} \ {orgs_df}
    /\ UNCHANGED <<to_fips, jdata_org_fp, _orgs_df, _zip_cnts_df, cnty_df,
                   include, exclude, call, frame, result>>
    /\ UNCHANGED fn_vars
    /\ UNCHANGED tool_vars

\* a further call of get_county_cnts on the object
GetCountyCntsAgain(categoricals, filters, reloads) ==
    /\ IF call = None THEN TRUE ELSE call.n < MaxCalls
    /\ CallGetCountyCnts(categoricals, filters, reloads)

InitSession == __init__({XlsxRows(Frac(3, 4))}, Directories(SessionKinds)) /\ FnIdle /\ ToolsIdle

NextSession == GetCountyCntsAgain({"denom"}, SessionFilters, BOOLEAN) \/ ClientEdit

SpecSession == InitSession /\ [][NextSession]_vars

\* C11: a call of get_county_cnts made when orgs_df is loaded and reload_orgs
\* is false leaves the contents of orgs_df as they were before the call,
\* with or without filters and whether the call returns or raises; the rows
\* the filters drop are dropped from the copy _orgs_df alone.
C11_OrgsDfMaintained ==
    [][(call' # call /\ orgs_df # None /\ ~call'.reload_orgs) =>
          /\ orgs_df' = orgs_df
          /\ \A k \in DOMAIN orgs_df : _orgs_df'[k] <= orgs_df[k]]_vars

\* a call with reload_orgs false has raised on a table the client had changed,
\* and the table is still the changed one; the call before it filtered a copy
C11_Witness ==
    /\ call # None
    /\ call.n = 2
    /\ ~call.reload_orgs
    /\ result.status = "ValueError"
    /\ orgs_df # read_orgs(jdata_org_fp)
    /\ _orgs_df = orgs_df

\* C12: in a session of calls of get_county_cnts on one object, a call reads
\* the organization table from the file exactly when orgs_df is None or
\* reload_orgs is true, and orgs_df is then the table of the file; every other
\* call keeps the orgs_df it found, changed by the client or not, and the
\* counts by ZIP and by county it leaves are those the aggregation gives for
\* the organizations of that table.
C12_ReadOnlyOnReload ==
    [][call' # call =>
          LET reads == orgs_df = None \/ call'.reload_orgs
              current == IF reads THEN read_orgs(jdata_org_fp) ELSE orgs_df
              InZip(z) == {k \in DOMAIN current : k.Zip = z}
              OfTypes(row) == {c \in DOMAIN row : c[1] = "Type"}
          IN  /\ orgs_df' = current
              /\ (/\ result'.status = "returned"
                  /\ include' = NoneArg
                  /\ exclude' = NoneArg) =>
                    /\ DOMAIN _zip_cnts_df' = Unique(current, "Zip")
                    /\ \A z \in DOMAIN _zip_cnts_df' :
                          Sum(_zip_cnts_df'[z], OfTypes(_zip_cnts_df'[z]))
                              = Sum(current, InZip(z))
                    /\ cnty_df' = get_county_cnts(current, to_fips, call'.categorical,
                                                  call'.interned, NoneArg, NoneArg).cnty]_vars

\* the second call, with reload_orgs false and no filter, has returned the
\* counts of a table the client had changed after the first call
C12_Witness ==
    /\ call # None
    /\ call.n = 2
    /\ ~call.reload_orgs
    /\ result.status = "returned"
    /\ include = NoneArg
    /\ exclude = NoneArg
    /\ orgs_df # read_orgs(jdata_org_fp)
    /\ cnty_df # get_county_cnts(read_orgs(jdata_org_fp), to_fips, call.categorical,
                                  call.interned, NoneArg, NoneArg).cnty

-----------------------------------------------------------------------------
(* hud_geo_conversions.py: read_zips_to_fips(fp, inverse) and its guard.     *)
(* A path is the sequence of its pieces, "/" a piece of its own; no piece    *)
(* holds a "/" and no two sequences of pieces spell the same string.         *)

PathPieces == {"/", "..", "Data", "ZIP_COUNTY_122016.xlsx", "COUNTY_ZIP_122016.xlsx",
               "ZIP_COUNTY_092016.xlsx", ".bak"}

Paths == UNION {[1..n -> PathPieces] : n \in 1..MaxPath}

\* fp.split('/')[-1]: what follows the last '/', the whole of fp without one
RECURSIVE LastComponent(_)
LastComponent(fp) ==
    IF fp = <<>> THEN <<>>
    ELSE IF fp[Len(fp)] = "/" THEN <<>>
    ELSE Append(LastComponent(SubSeq(fp, 1, Len(fp) - 1)), fp[Len(fp)])

\* the rows of COUNTY_ZIP_122016.xlsx: the pairs of the ZIP-county file, the
\* ratios being shares of the county
CountyZipRows ==
    << [ZIP |-> 2, COUNTY |-> 1001, OTH_RATIO |-> Frac(1, 2)],
       [ZIP |-> 5, COUNTY |-> 1001, OTH_RATIO |-> Frac(1, 2)],
       [ZIP |-> 5, COUNTY |-> 1003, OTH_RATIO |-> Num(1)],
       [ZIP |-> 9, COUNTY |-> 1003, OTH_RATIO |-> Num(0)],
       [ZIP |-> 9, COUNTY |-> 1005, OTH_RATIO |-> Num(1)] >>

\* pd.read_excel(fp) of the two crosswalk files, in whatever directory
pd_read_excel(fp) ==
    IF LastComponent(fp) = <<"COUNTY_ZIP_122016.xlsx">> THEN CountyZipRows
    ELSE XlsxRows(Frac(3, 4))

\* the guard, what inverse asks for never looked at
WrongFile_bug(fp, inverse) ==
    IF LastComponent(fp) \notin {<<"COUNTY_ZIP_122016.xlsx">>, <<"ZIP_COUNTY_122016.xlsx">>}
    THEN "Should load file: ZIP_COUNTY_122016.xlsx"
    ELSE ""

\* the guard of read_zips_to_fips: the message of the ValueError it raises,
\* '' when it raises none
WrongFile(fp, inverse) ==
    IF inverse /\ LastComponent(fp) # <<"COUNTY_ZIP_122016.xlsx">>
    THEN "Inverse should load file: COUNTY_ZIP_122016.xlsx"
    ELSE IF ~inverse /\ LastComponent(fp) # <<"ZIP_COUNTY_122016.xlsx">>
    THEN "Should load file: ZIP_COUNTY_122016.xlsx"
    ELSE ""

\* read_zips_to_fips(fp, inverse): the error, the rows, the column set as
\* index and whether the file was read
read_zips_to_fips_guarded(fp, inverse) ==
    IF WrongFile(fp, inverse) # ""
    THEN [err |-> WrongFile(fp, inverse), df |-> None, index |-> None, read |-> FALSE]
    ELSE [err |-> "", df |-> read_zips_to_fips(pd_read_excel(fp)),
          index |-> IF inverse THEN "FIPS" ELSE "ZIP", read |-> TRUE]

\* read_zips_to_fips(fp, inverse=inverse)
ReadZipsToFips ==
    /\ hud_result = None
    /\ \E fp \in Paths, inverse \in BOOLEAN :
          \E out \in {read_zips_to_fips_guarded(fp, inverse)} :
             /\ xlsx_read' = IF out.read THEN Append(xlsx_read, fp) ELSE xlsx_read
             /\ hud_result' = [fp |-> fp, inverse |-> inverse, err |-> out.err,
                               df |-> out.df, index |-> out.index]
    /\ UNCHANGED <<acs_csv, acs_result, denom_cnts, merge_result, svg_args, svg_result>>
    /\ UNCHANGED class_vars
    /\ UNCHANGED fn_vars

InitHud == ClassIdle /\ FnIdle /\ ToolsIdle

NextHud == ReadZipsToFips

SpecHud == InitHud /\ [][NextHud]_vars

\* fp names the file n: n is its last piece, alone or after a "/"
IsFileName(fp, n) ==
    /\ fp[Len(fp)] = n
    /\ Len(fp) = 1 \/ fp[Len(fp) - 1] = "/"

\* C13: read_zips_to_fips raises ValueError, no file read, when the file name
\* of fp is not 'COUNTY_ZIP_122016.xlsx' and inverse is true, and when it is
\* not 'ZIP_COUNTY_122016.xlsx' and inverse is false; given the matching file
\* name it reads that file and sets FIPS as index when inverse is true, ZIP
\* when it is false.
C13_WrongCrosswalkRaises ==
    hud_result # None =>
        LET wanted == IF hud_result.inverse THEN "COUNTY_ZIP_122016.xlsx"
                      ELSE "ZIP_COUNTY_122016.xlsx"
        IN  IF IsFileName(hud_result.fp, wanted)
            THEN /\ hud_result.err = ""
                 /\ xlsx_read = <<hud_result.fp>>
                 /\ hud_result.index = IF hud_result.inverse THEN "FIPS" ELSE "ZIP"
                 /\ \A i \in DOMAIN hud_result.df :
                       /\ Len(hud_result.df[i].FIPS) = ZIP_WIDTH
                       /\ Len(hud_result.df[i].ZIP) = ZIP_WIDTH
            ELSE /\ hud_result.err = IF hud_result.inverse
                                     THEN "Inverse should load file: COUNTY_ZIP_122016.xlsx"
                                     ELSE "Should load file: ZIP_COUNTY_122016.xlsx"
                 /\ xlsx_read = <<>>
                 /\ hud_result.df = None

\* the ZIP-county file of a directory was asked for with inverse true, and
\* nothing was read
C13_Witness ==
    /\ hud_result # None
    /\ hud_result.inverse
    /\ hud_result.fp = <<"Data", "/", "ZIP_COUNTY_122016.xlsx">>
    /\ hud_result.err # ""
    /\ xlsx_read = <<>>

-----------------------------------------------------------------------------
(* acs.py: ACSCountyReader.read_counties. A column name is the sequence of   *)
(* its pieces, 'Estimate; Total: - Israeli' being                            *)
(* <<"Estimate; ", "Tot", "al", ":", " - ", "Israeli">>, so that 'x in name', *)
(* strip(':') and endswith('_Moe') are taken on the pieces. A column is its  *)
(* name and og, the name it has in the file.                                 *)

FIPS_COL_OG == <<"Id", "2">>
FIPS_COL == <<"FIPS">>
GEO_COL_OG == <<"Geography">>
GEO_COL == <<"County">>
EST_PRE == "Estimate; "
MOE_PRE == "Margin of Error; "
MOE_SUF == "_Moe"
TOT_EST_OG == <<EST_PRE, "Tot", "al">>
TOT_EST == <<"Tot">>
TOT_MOE_OG == <<MOE_PRE, "Tot", "al">>
TOT_MOE == <<"Tot", MOE_SUF>>
GEN_COLS_OG == <<FIPS_COL_OG, GEO_COL_OG, TOT_EST_OG, TOT_MOE_OG>>
GEN_COLS == <<FIPS_COL, GEO_COL, TOT_EST, TOT_MOE>>
TO_DROP == {<<"Id">>}

\* sub-populations of the ancestry tables
VarNames == <<"Israeli", "Afghan", "Albanian">>

\* the header of a table with n sub-populations; colon tells whether the
\* total's name ends in ':' (B04004) or not (B01003)
RECURSIVE VarCols(_)
VarCols(n) ==
    IF n = 0 THEN <<>>
    ELSE VarCols(n - 1) \o << <<EST_PRE, "Tot", "al", ":", " - ", VarNames[n]>>,
                               <<MOE_PRE, "Tot", "al", ":", " - ", VarNames[n]>> >>

Header(n, colon) ==
    << <<"Id">>, FIPS_COL_OG, GEO_COL_OG,
       IF colon THEN Append(TOT_EST_OG, ":") ELSE TOT_EST_OG,
       IF colon THEN Append(TOT_MOE_OG, ":") ELSE TOT_MOE_OG >> \o VarCols(n)

\* the tables of the files: their header and the Id2 of their rows, as
\* pd.read_csv reads them (integers)
AcsFiles ==
    {[columns |-> Header(n, colon), Id2 |-> ids] :
        n \in 0..(IF MaxVars < Len(VarNames) THEN MaxVars ELSE Len(VarNames)),
        colon \in BOOLEAN,
        ids \in {<<1001>>, <<1001, 6037>>, <<72001, 1003, 48301>>}}

\* values of kw: none, the test's keyword, a sub-population, and two that
\* match several columns
AcsKws == {None, <<"test_kw">>, <<"Israeli">>, <<"Tot">>, <<"Tot", "al">>}

NameNone == [k |-> "None", s |-> <<>>]
NameTrue == [k |-> "True", s |-> <<>>]
NameStr(s) == [k |-> "str", s |-> s]

\* values of name
AcsNames == {NameNone, NameTrue, NameStr(<<"test_names">>)}

\* x.strip(':')
RECURSIVE strip(_)
strip(x) ==
    IF x = <<>> THEN x
    ELSE IF Head(x) = ":" THEN strip(Tail(x))
    ELSE IF x[Len(x)] = ":" THEN strip(SubSeq(x, 1, Len(x) - 1))
    ELSE x

\* kw in x
IsInfix(kw, x) ==
    \E i \in 0..(Len(x) - Len(kw)) : SubSeq(x, i + 1, i + Len(kw)) = kw

\* x.endswith(suf) for a suffix of one piece
EndsWith(x, suf) == x # <<>> /\ x[Len(x)] = suf

\* the position of x in the list ls, 0 when it is not there
IndexOf(x, ls) ==
    IF \E i \in DOMAIN ls : ls[i] = x THEN CHOOSE i \in DOMAIN ls : ls[i] = x ELSE 0

\* df.rename(columns=dict(zip(old, new))) on a name
RenamedCol(x, old, new) == IF IndexOf(x, old) = 0 THEN x ELSE new[IndexOf(x, old)]

\* "if len(kw_cols) > 2: raise", taken as "unless the keyword is in the two
\* columns of one variable"
RenameRefused_bug(kw_cols) == Len(kw_cols) # 2

\* "if len(kw_cols) > 2: raise ValueError"
RenameRefused(kw_cols) == Len(kw_cols) > 2

\* the new name of a column the keyword is in
NewKwCol(kw_col, name) ==
    IF IsInfix(<<EST_PRE>>, kw_col) THEN name
    ELSE IF IsInfix(<<MOE_PRE>>, kw_col) THEN Append(name, MOE_SUF)
    ELSE kw_col

\* ACSCountyReader.read_counties(kw, name, total, moe) with geo false: the
\* error, the columns of the table returned and its index
read_counties(csv, kw, name, total, moe) ==
    LET read == [i \in DOMAIN csv.columns |->
                    [name |-> csv.columns[i], og |-> csv.columns[i]]]
        dropped == SelectSeq(read, LAMBDA c : c.name \notin TO_DROP)
        stripped == [i \in DOMAIN dropped |->
                        [dropped[i] EXCEPT !.name = strip(@)]]
        general == [i \in DOMAIN stripped |->
                        [stripped[i] EXCEPT !.name = RenamedCol(@, GEN_COLS_OG, GEN_COLS)]]
        has_kw == kw # None /\ kw # <<>>
        kw_all == SelectSeq(general, LAMBDA c : has_kw /\ IsInfix(kw, c.name))
        kw_cols == [i \in DOMAIN kw_all |-> kw_all[i].name]
        selected == IF has_kw
                    THEN SelectSeq(general,
                             LAMBDA c : c.name \in Range(GEN_COLS) \/ c.name \in Range(kw_cols))
                    ELSE general
        renames == has_kw /\ name # NameNone
        new_name == IF name = NameTrue THEN kw ELSE name.s
        new_kw_cols == [i \in DOMAIN kw_cols |-> NewKwCol(kw_cols[i], new_name)]
        named == IF renames
                 THEN [i \in DOMAIN selected |->
                          [selected[i] EXCEPT !.name = RenamedCol(@, kw_cols, new_kw_cols)]]
                 ELSE selected
        no_moe == IF ~moe THEN SelectSeq(named, LAMBDA c : ~EndsWith(c.name, MOE_SUF))
                  ELSE named
        no_tot == IF ~total
                  THEN SelectSeq(no_moe, LAMBDA c : c.name \notin {TOT_EST, TOT_MOE})
                  ELSE no_moe
        no_geo == SelectSeq(no_tot, LAMBDA c : c.name # GEO_COL)
        fips == SelectSeq(no_geo, LAMBDA c : c.name = FIPS_COL)
    IN  IF renames /\ RenameRefused(kw_cols)
        THEN [err |-> "ValueError: Renaming only supported when keyword present in only one variable",
              columns |-> None, index |-> None]
        ELSE IF ~\E i \in DOMAIN no_tot : no_tot[i].name = GEO_COL
        THEN [err |-> "KeyError: County", columns |-> None, index |-> None]
        ELSE IF Len(fips) # 1
        THEN [err |-> "FIPS is not one column", columns |-> None, index |-> None]
        ELSE [err |-> "",
              columns |-> SelectSeq(no_geo, LAMBDA c : c.name # FIPS_COL),
              index |-> [i \in DOMAIN csv.Id2 |-> code_to_str(csv.Id2[i], 5)]]

\* ACSCountyReader(fp).read_counties(kw, name, total, moe)
ReadCounties ==
    /\ acs_result = None
    /\ \E kw \in AcsKws, name \in AcsNames, total \in BOOLEAN, moe \in BOOLEAN :
          \E out \in {read_counties(acs_csv, kw, name, total, moe)} :
             acs_result' = [kw |-> kw, name |-> name, total |-> total, moe |-> moe,
                            err |-> out.err, columns |-> out.columns, index |-> out.index]
    /\ UNCHANGED <<xlsx_read, hud_result, acs_csv, denom_cnts, merge_result,
                   svg_args, svg_result>>
    /\ UNCHANGED class_vars
    /\ UNCHANGED fn_vars

\* ACSCountyReader(fp) on one of the files
InitAcs ==
    /\ ClassIdle
    /\ FnIdle
    /\ xlsx_read = <<>>
    /\ hud_result = None
    /\ acs_csv \in AcsFiles
    /\ acs_result = None
    /\ denom_cnts = None
    /\ merge_result = None
    /\ svg_args = None
    /\ svg_result = None

NextAcs == ReadCounties

SpecAcs == InitAcs /\ [][NextAcs]_vars

\* the column holds margins of error: it is one of the file's
\* 'Margin of Error; ' columns
IsMoe(c) == c.og[1] = MOE_PRE

\* C14: the table read_counties returns with moe false holds no
\* margin-of-error column, whatever kw, name and total are; with moe true it
\* holds, for every estimate column it holds, that variable's margin-of-error
\* column.
C14_MoeFalseDropsMargins ==
    (acs_result # None /\ acs_result.err = "") =>
        LET cols == acs_result.columns
        IN  IF ~acs_result.moe
            THEN \A i \in DOMAIN cols : ~IsMoe(cols[i])
            ELSE \A i \in DOMAIN cols :
                    cols[i].og[1] = EST_PRE =>
                        \E j \in DOMAIN cols :
                            cols[j].og = <<MOE_PRE>> \o Tail(cols[i].og)


\* C15: read_counties raises nothing when kw is absent or a keyword in no
\* column, whatever name (None, True, a string), total and moe are, and the
\* table it returns is indexed by FIPS codes of 5 characters, one per row of
\* the file.
C15_ValidParametersReturn ==
    (/\ acs_result # None
     /\ \/ acs_result.kw = None
        \/ \A i \in DOMAIN acs_csv.columns : ~IsInfix(acs_result.kw, acs_csv.columns[i])) =>
        /\ acs_result.err = ""
        /\ Len(acs_result.index) = Len(acs_csv.Id2)
        /\ \A i \in DOMAIN acs_result.index :
              /\ Len(acs_result.index[i]) = 5
              /\ StrToInt(acs_result.index[i]) = acs_csv.Id2[i]
        /\ \A i \in DOMAIN acs_result.columns :
              acs_result.columns[i].name \notin {FIPS_COL, GEO_COL}

\* the test's call with a keyword in no column and name True has returned the
\* rows of a file whose Id2 read as numbers of 4 digits
C15_Witness ==
    /\ acs_result # None
    /\ acs_result.kw = <<"test_kw">>
    /\ acs_result.name = NameTrue
    /\ ~acs_result.total
    /\ ~acs_result.moe
    /\ acs_result.err = ""
    /\ acs_csv.Id2 = <<1001, 6037>>
    /\ acs_result.columns = <<>>

-----------------------------------------------------------------------------
(* jewish_county_data.py: merge_similar_denoms                               *)

\* DENOMS with the two destinations exchanged
DENOMS_bug(prefixed) ==
    LET Col(d) == IF prefixed THEN <<"Denom", d>> ELSE <<d>>
    IN  << [dest |-> Col("Secular"), denoms |-> {Col("Traditional"), Col("Sephardic")}],
           [dest |-> Col("Orthodox"), denoms |-> {Col("Humanistic")}] >>

\* DENOMS of merge_similar_denoms, in the order the dict is written
DENOMS(prefixed) ==
    LET Col(d) == IF prefixed THEN <<"Denom", d>> ELSE <<d>>
    IN  << [dest |-> Col("Orthodox"), denoms |-> {Col("Traditional"), Col("Sephardic")}],
           [dest |-> Col("Secular"), denoms |-> {Col("Humanistic")}] >>

\* df[denoms].sum(1) of a row: missing values are skipped
SumSkipNa(row, denoms) ==
    FSum(row, {c \in denoms : row[c] # FloatNaN})

\* one round of the loop: df[dest] += df[denoms].sum(1); df = df.drop(denoms, axis=1)
\* gives the table assigned to df[dest]'s frame and the table after the drop
MergeInto(df, d) ==
    LET added == [f \in DOMAIN df |->
                    [df[f] EXCEPT ![d.dest] = FAdd(@, SumSkipNa(df[f], d.denoms))]]
    IN  [added |-> added,
         dropped |-> [f \in DOMAIN df |-> Select(added[f], DOMAIN added[f] \ d.denoms)]]

\* merge_similar_denoms(df), the dict iterated in the order of the positions
\* order: the error, the table returned and the caller's table after the call
merge_similar_denoms(df, order) ==
    LET prefixed == \E c \in Columns(df) : c[1] = "Denom" /\ Len(c) > 1
        first == DENOMS(prefixed)[order[1]]
        second == DENOMS(prefixed)[order[2]]
        Missing(t, d) == ~(({d.dest} \cup d.denoms) \subseteq Columns(t))
        one == MergeInto(df, first)
        two == MergeInto(one.dropped, second)
    IN  IF Missing(df, first)
        THEN [err |-> "KeyError", df |-> None, arg |-> df]
        ELSE IF Missing(one.dropped, second)
        THEN [err |-> "KeyError", df |-> None, arg |-> one.added]
        ELSE [err |-> "", df |-> two.dropped, arg |-> one.added]

\* the denominations of the columns of a county table
MergeDenoms == {"Orthodox", "Traditional", "Sephardic", "Secular", "Humanistic", "Reform"}

\* counts of a county: whole ones and a half, as the ratios of the crosswalk give
MergeCounts == {Num(n) : n \in 0..MaxCount} \cup {Frac(1, 2)}

\* county tables by denomination: a county of any counts, alone, or beside a
\* county with no count at all (what the imputation leaves of a county with no
\* denomination known) or beside one with a count of each; with the full
\* names merge_similar_denoms uses, prefixed or not, and with the short names
\* of JData.DENOM_NAMES
MergeTables ==
    LET Named(row, prefixed) ==
            [c \in {IF prefixed THEN <<"Denom", d>> ELSE <<d>> : d \in MergeDenoms} |->
                row[c[Len(c)]]]
        others == {[d \in MergeDenoms |-> FloatNaN], [d \in MergeDenoms |-> Num(1)]}
        short == [c \in {<<"Denom", "Orth">>, <<"Denom", "Trad">>, <<"Denom", "Seph">>,
                         <<"Denom", "Sec">>, <<"Denom", "Hum">>} |-> Num(1)]
    IN  {[f \in {code_to_str(1001, 5)} |-> Named(row, prefixed)] :
            row \in [MergeDenoms -> MergeCounts], prefixed \in BOOLEAN}
        \cup {[f \in {code_to_str(1001, 5), code_to_str(1003, 5)} |->
                 IF f = code_to_str(1001, 5) THEN Named(row, prefixed)
                 ELSE Named(other, prefixed)] :
                row \in [MergeDenoms -> MergeCounts], prefixed \in BOOLEAN,
                other \in others}
        \cup {[f \in {code_to_str(1001, 5)} |-> short]}

\* df = merge_similar_denoms(df)
MergeSimilarDenoms ==
    /\ merge_result = None
    /\ \E order \in {<<1, 2>>, <<2, 1>>} :
          \E out \in {merge_similar_denoms(denom_cnts, order)} :
             /\ denom_cnts' = out.arg
             /\ merge_result' = [arg |-> denom_cnts, err |-> out.err, df |-> out.df]
    /\ UNCHANGED <<xlsx_read, hud_result, acs_csv, acs_result, svg_args, svg_result>>
    /\ UNCHANGED class_vars
    /\ UNCHANGED fn_vars

InitMerge ==
    /\ ClassIdle
    /\ FnIdle
    /\ xlsx_read = <<>>
    /\ hud_result = None
    /\ acs_csv = None
    /\ acs_result = None
    /\ denom_cnts \in MergeTables
    /\ merge_result = None
    /\ svg_args = None
    /\ svg_result = None

NextMerge == MergeSimilarDenoms

SpecMerge == InitMerge /\ [][NextMerge]_vars

\* C16: the table merge_similar_denoms returns has, for every county, in
\* Orthodox the counts of Orthodox, Traditional and Sephardic and in Secular
\* those of Secular and Humanistic (the names prefixed with 'Denom_' when the
\* columns are), no column of the three merged, every other column as it was,
\* and the row total it had.
C16_MergePreservesTotals ==
    (merge_result # None /\ merge_result.err = "") =>
        LET before == merge_result.arg
            after == merge_result.df
            prefixed == <<"Denom", "Orthodox">> \in Columns(before)
            Col(d) == IF prefixed THEN <<"Denom", d>> ELSE <<d>>
            merged == {Col("Traditional"), Col("Sephardic"), Col("Humanistic")}
        IN  /\ DOMAIN after = DOMAIN before
            /\ \A f \in DOMAIN before :
                  /\ DOMAIN after[f] = DOMAIN before[f] \ merged
                  /\ after[f][Col("Orthodox")] =
                        FAdd(before[f][Col("Orthodox")],
                             FAdd(before[f][Col("Traditional")], before[f][Col("Sephardic")]))
                  /\ after[f][Col("Secular")] =
                        FAdd(before[f][Col("Secular")], before[f][Col("Humanistic")])
                  /\ \A c \in DOMAIN after[f] \ {Col("Orthodox"), Col("Secular")} :
                        after[f][c] = before[f][c]
                  /\ RowSum(after[f]) = RowSum(before[f])

\* a table with prefixed names and a county with a Traditional, a Sephardic
\* and a Humanistic count has been merged
C16_Witness ==
    /\ merge_result # None
    /\ merge_result.err = ""
    /\ \E f \in DOMAIN merge_result.arg :
          /\ <<"Denom", "Traditional">> \in DOMAIN merge_result.arg[f]
          /\ merge_result.arg[f][<<"Denom", "Traditional">>] = Num(1)
          /\ merge_result.arg[f][<<"Denom", "Sephardic">>] = Frac(1, 2)
          /\ merge_result.arg[f][<<"Denom", "Humanistic">>] = Num(1)
          /\ merge_result.arg[f][<<"Denom", "Reform">>] = Num(1)
          /\ merge_result.df[f][<<"Denom", "Orthodox">>] # merge_result.arg[f][<<"Denom", "Orthodox">>]

-----------------------------------------------------------------------------
(* map_maker.py: draw_county_data_svg. A colour is <<name, n, i>>: colour i  *)
(* of the palette 'Reds' of n colours, colour i of a list the caller gave,   *)
(* or a colour given by name.                                                *)

\* x <= y on floats: False when either is nan
FLe(x, y) == IsFinite(x) /\ IsFinite(y) /\ x[1] * y[2] <= y[1] * x[2]

\* sns.color_palette('Reds', n).as_hex()
color_palette(n) == [i \in 1..n |-> <<"Reds", n, i>>]

\* a list of n colours of the caller
ColorList(n) == [i \in 1..n |-> <<"list", n, i>>]

NO_DATA_COLOR == <<"#eeeeee", 0, 0>>

county_style(color) == [kind |-> "county", fill |-> color]
state_style == [kind |-> "state", fill |-> <<"none", 0, 0>>]
sep_style == [kind |-> "separator", fill |-> <<"none", 0, 0>>]

\* the local variable style before its first assignment
Unbound == [kind |-> "unbound", fill |-> <<"none", 0, 0>>]

\* the values of data[S] in ascending order
RECURSIVE SortedValues(_, _)
SortedValues(data, S) ==
    IF S = {} THEN <<>>
    ELSE LET m == CHOOSE x \in S : \A y \in S : FLe(data[x], data[y])
         IN  <<data[m]>> \o SortedValues(data, S \ {m})

\* data.quantile(k / n), by linear interpolation between the order statistics
quantile(data, k, n) ==
    LET v == SortedValues(data, DOMAIN data)
        N == Len(v)
        lo == (k * (N - 1)) \div n
        rem == (k * (N - 1)) % n
        hi == IF lo + 1 < N THEN lo + 1 ELSE N - 1
    IN  IF N = 0 THEN FloatNaN
        ELSE FAdd(v[lo + 1], FMul(FSub(v[hi + 1], v[lo + 1]), Frac(rem, n)))

\* data.min()
DataMin(data) ==
    IF DOMAIN data = {} THEN FloatNaN ELSE SortedValues(data, DOMAIN data)[1]

\* the position of the first bin with val <= bin_, 0 when the loop ends
\* without a break
FirstBin(val, bins) ==
    IF \E j \in DOMAIN bins : FLe(val, bins[j])
    THEN CHOOSE j \in DOMAIN bins :
            FLe(val, bins[j]) /\ \A k \in 1..(j - 1) : ~FLe(val, bins[k])
    ELSE 0

\* the loop over the paths of the template from path i on, style being the
\* local variable as the paths before left it: the styles set, or the error
RECURSIVE StylePaths(_, _, _, _, _, _)
StylePaths(paths, i, style, data, bins, colors) ==
    IF i > Len(paths) THEN [err |-> "", styles |-> <<>>]
    ELSE LET id_ == paths[i]
             j == IF id_ \in DOMAIN data THEN FirstBin(data[id_], bins) ELSE 0
             new == IF id_ \notin DOMAIN data
                    THEN IF id_ = "state_lines" THEN state_style
                         ELSE IF id_ = "separator" THEN sep_style
                         ELSE county_style(NO_DATA_COLOR)
                    ELSE IF j # 0 THEN county_style(colors[j])
                    ELSE style
             rest == StylePaths(paths, i + 1, new, data, bins, colors)
         IN  IF new = Unbound
             THEN [err |-> "UnboundLocalError", styles |-> <<>>]
             ELSE [err |-> rest.err,
                   styles |-> IF rest.err = "" THEN <<new>> \o rest.styles ELSE <<>>]

\* draw_county_data_svg(data, fp, colors, bins, zero_color=zero_color): the
\* error, the styles of the paths written, and bins and colors as the call
\* leaves them
draw_county_data_svg(a) ==
    LET n_given == IF a.colors.int THEN a.colors.n ELSE Len(a.colors.l)
        bins0 == IF ~a.bins.given
                 THEN [x \in 1..n_given |-> quantile(a.data, x, n_given)]
                 ELSE a.bins.l
        colors0 == IF ~a.colors.int THEN a.colors.l
                   ELSE IF ~a.bins.given THEN color_palette(a.colors.n)
                   ELSE color_palette(IF Len(a.bins.l) <= a.colors.n
                                      THEN Len(a.bins.l) ELSE a.colors.n)
        zero == a.zero_color.k # "None"
        zero_color == IF a.zero_color.k = "True" THEN NO_DATA_COLOR ELSE a.zero_color.c
        bins == IF zero THEN <<DataMin(a.data)>> \o bins0 ELSE bins0
        colors == IF zero THEN <<zero_color>> \o colors0 ELSE colors0
        drawn == StylePaths(a.paths, 1, Unbound, a.data, bins, colors)
    IN  IF Len(bins) # Len(colors)
        THEN [err |-> "AssertionError", styles |-> <<>>, bins |-> bins, colors |-> colors]
        ELSE [err |-> drawn.err, styles |-> drawn.styles, bins |-> bins, colors |-> colors]

\* ids of the paths of a template: counties, the state lines and the separator
PathIds == {"01001", "01003", "01005", "state_lines", "separator"}

\* templates: up to MaxPaths paths of different ids, in any order
Templates ==
    {t \in UNION {[1..n -> PathIds] : n \in 1..MaxPaths} :
        \A i, k \in DOMAIN t : i # k => t[i] # t[k]}

\* data: a value for one or two of the counties
MapData ==
    UNION {[D -> {Num(v) : v \in 0..MaxVal}] : D \in {{"01001"}, {"01003"}, {"01001", "01003"}}}

\* bins and colors: the defaults, quantile bins for a list of colours, bins
\* given with the default number of colours, with a list of as many colours,
\* and with a list of fewer
BinsColors ==
    {<<[given |-> FALSE, l |-> <<>>], [int |-> TRUE, n |-> 6, l |-> <<>>]>>,
     <<[given |-> FALSE, l |-> <<>>], [int |-> FALSE, n |-> 0, l |-> ColorList(2)]>>,
     <<[given |-> TRUE, l |-> <<Num(0), Num(1)>>], [int |-> TRUE, n |-> 6, l |-> <<>>]>>,
     <<[given |-> TRUE, l |-> <<Num(0), Num(1)>>], [int |-> FALSE, n |-> 0, l |-> ColorList(2)]>>,
     <<[given |-> TRUE, l |-> <<Num(0), Num(1)>>], [int |-> FALSE, n |-> 0, l |-> ColorList(1)]>>}

ZeroColors == {[k |-> "None", c |-> <<"none", 0, 0>>],
               [k |-> "True", c |-> <<"none", 0, 0>>],
               [k |-> "str", c |-> <<"#ffffff", 0, 0>>]}

\* draw_county_data_svg(data, fp, colors=colors, bins=bins, zero_color=zero_color)
DrawCountyDataSvg ==
    /\ svg_result = None
    /\ \E out \in {draw_county_data_svg(svg_args)} :
          /\ svg_result' = out
          /\ svg_args' = [svg_args EXCEPT
                !.bins = IF @.given THEN [@ EXCEPT !.l = out.bins] ELSE @,
                !.colors = IF @.int THEN @ ELSE [@ EXCEPT !.l = out.colors]]
    /\ UNCHANGED <<xlsx_read, hud_result, acs_csv, acs_result, denom_cnts, merge_result>>
    /\ UNCHANGED class_vars
    /\ UNCHANGED fn_vars

InitSvg ==
    /\ ClassIdle
    /\ FnIdle
    /\ xlsx_read = <<>>
    /\ hud_result = None
    /\ acs_csv = None
    /\ acs_result = None
    /\ denom_cnts = None
    /\ merge_result = None
    /\ svg_args \in {[data |-> d, bins |-> bc[1], colors |-> bc[2], zero_color |-> z,
                      paths |-> t] :
                        d \in MapData, bc \in BinsColors, z \in ZeroColors, t \in Templates}
    /\ svg_result = None

NextSvg == DrawCountyDataSvg

SpecSvg == InitSvg /\ [][NextSvg]_vars

\* C17: in the map draw_county_data_svg writes, a county path whose id is in
\* data has the colour paired with the first bin, in list order, whose bound
\* is at least the county's value; two county paths of equal value have the
\* same style, wherever they are among the paths; a county path whose id is
\* not in data has no_data_color.
C17_CountyStyleByOwnValue ==
    (svg_result # None /\ svg_result.err = "") =>
        LET paths == svg_args.paths
            data == svg_args.data
            bins == svg_result.bins
            colors == svg_result.colors
            styles == svg_result.styles
        IN  /\ \A i \in DOMAIN paths :
                  IF paths[i] \in DOMAIN data
                  THEN \E j \in DOMAIN bins :
                          /\ FLe(data[paths[i]], bins[j])
                          /\ \A k \in 1..(j - 1) : ~FLe(data[paths[i]], bins[k])
                          /\ styles[i] = county_style(colors[j])
                  ELSE paths[i] \notin {"state_lines", "separator"} =>
                          styles[i] = county_style(NO_DATA_COLOR)
            /\ \A i, k \in DOMAIN paths :
                  (/\ paths[i] \in DOMAIN data
                   /\ paths[k] \in DOMAIN data
                   /\ data[paths[i]] = data[paths[k]]) => styles[i] = styles[k]

====
